---- MODULE Spec2Model ----
(***************************************************************************)
(* Temporal queries of frequenz.client.dispatch.types.Dispatch:            *)
(* running, until, next_run and next_run_after.                            *)
(*                                                                         *)
(* Instants are integers counted in ticks of one hour on a scaled          *)
(* calendar: a day has HoursPerDay ticks and a week DaysPerWeek days, tick *)
(* 0 being the first hour of a Sunday (as 2023-01-01 is in the tests).     *)
(* datetime.now() is an input of the queries that read it.                 *)
(***************************************************************************)
EXTENDS Integers, FiniteSets, Sequences, TLC

\* ---------------------------------------------------------------- bounds
MaxTime == 17
MaxStart == 2
MaxDuration == 2
MaxInterval == 2
MaxCount == 2
HoursPerDay == 2

\* ------------------------------------------------------- calendar scale
DaysPerWeek == 7
DayLen == HoursPerDay
WeekLen == DaysPerWeek * HoursPerDay

Times == 0..MaxTime
Horizon == MaxTime + (MaxInterval + 1) * WeekLen

\* --------------------------------------------------------- optional values
None == [kind |-> "None", v |-> 0]
Some(x) == [kind |-> "Some", v |-> x]
ValueError == [kind |-> "ValueError", v |-> 0]

\* ------------------------------------------------------------ enumerations
RunningState == {"RUNNING", "STOPPED", "DIFFERENT_TYPE"}
Frequency == {"UNSPECIFIED", "HOURLY", "DAILY", "WEEKLY"}
Weekday == {"UNSPECIFIED", "MONDAY", "TUESDAY", "WEDNESDAY", "THURSDAY",
            "FRIDAY", "SATURDAY", "SUNDAY"}
Types == {"TypeA", "TypeB"}

\* Name of the day an instant falls on; tick 0 is a Sunday.
WeekdayName(i) ==
    CASE i = 0 -> "SUNDAY"
      [] i = 1 -> "MONDAY"
      [] i = 2 -> "TUESDAY"
      [] i = 3 -> "WEDNESDAY"
      [] i = 4 -> "THURSDAY"
      [] i = 5 -> "FRIDAY"
      [] OTHER -> "SATURDAY"

WeekdayOf(t) == WeekdayName((t \div DayLen) % DaysPerWeek)

\* --------------------------------------------------------- RecurrenceRule
\* end_criteria: kind "None" (absent), "count" (v occurrences) or
\* "until" (instant v).
EndCriteria ==
    {[kind |-> "None", v |-> 0]}
      \cup {[kind |-> "count", v |-> c] : c \in 1..MaxCount}
      \cup {[kind |-> "until", v |-> u] : u \in {2 * DayLen}}

WeekdaySets == {{}, {"MONDAY"}, {"UNSPECIFIED", "MONDAY"}}

RecurrenceRule ==
    [frequency : Frequency \ {"UNSPECIFIED"},
     interval : 0..MaxInterval,
     end_criteria : EndCriteria,
     byweekdays : WeekdaySets]
      \cup [frequency : {"UNSPECIFIED"},
            interval : {0},
            end_criteria : {[kind |-> "None", v |-> 0]},
            byweekdays : {{}, {"UNSPECIFIED"}}]

\* Length of one unit of a frequency.
FreqStep(f) ==
    CASE f = "HOURLY" -> 1
      [] f = "DAILY" -> DayLen
      [] f = "WEEKLY" -> WeekLen
      [] OTHER -> 1

\* interval 0 and interval 1 both mean every unit.
EffInterval(i) == IF i = 0 THEN 1 ELSE i

Stride(rule) == FreqStep(rule.frequency) * EffInterval(rule.interval)

\* The stepped instants start + k * stride, up to the horizon.
Stepped(rule, start) ==
    {start + k * Stride(rule) : k \in 0..(Horizon \div Stride(rule))}

\* Stepped instants expanded / filtered by byweekdays.
Filtered(rule, start) ==
    IF rule.byweekdays = {}
    THEN Stepped(rule, start)
    ELSE IF "UNSPECIFIED" \in rule.byweekdays
    THEN {}
    ELSE IF rule.frequency = "WEEKLY"
    THEN {s + j * DayLen : s \in Stepped(rule, start), j \in 0..(DaysPerWeek - 1)}
           \cap {t \in 0..(Horizon + WeekLen) : WeekdayOf(t) \in rule.byweekdays}
    ELSE {s \in Stepped(rule, start) : WeekdayOf(s) \in rule.byweekdays}

\* Occurrences of the rule anchored at start: filtered instants, truncated
\* by the end criteria.
Occurrences(rule, start) ==
    LET F == Filtered(rule, start)
    IN  CASE rule.end_criteria.kind = "count" ->
               {o \in F : Cardinality({p \in F : p < o}) < rule.end_criteria.v}
          [] rule.end_criteria.kind = "until" ->
               {o \in F : o < rule.end_criteria.v}
          [] OTHER -> F

SetMax(S) == CHOOSE x \in S : \A y \in S : y <= x
SetMin(S) == CHOOSE x \in S : \A y \in S : x <= y

\* rrule.before(dt, inc=True): the latest occurrence <= dt.
rrule_before(occs, dt) ==
    LET P == {o \in occs : o <= dt}
    IN  IF P = {} THEN None ELSE Some(SetMax(P))

\* rrule.after(dt, inc=True): the earliest occurrence >= dt.
rrule_after(occs, dt) ==
    LET P == {o \in occs : o >= dt}
    IN  IF P = {} THEN None ELSE Some(SetMin(P))

\* --------------------------------------------------------------- Dispatch
Durations == {None} \cup {Some(n) : n \in 0..MaxDuration}

Dispatch ==
    [type : Types,
     start_time : 1..MaxStart,
     duration : Durations,
     active : BOOLEAN,
     recurrence : RecurrenceRule]

NoFrequency(d) == d.recurrence.frequency = "UNSPECIFIED"

\* Variant of _until whose lookup of the latest past start excludes now.
until_before_exclusive(d, now) ==
    IF d.duration = None
    THEN ValueError
    ELSE IF NoFrequency(d)
    THEN Some(d.start_time + d.duration.v)
    ELSE LET latest_past_start ==
                 rrule_before(Occurrences(d.recurrence, d.start_time), now - 1)
         IN  IF latest_past_start = None
             THEN None
             ELSE Some(latest_past_start.v + d.duration.v)

\* Variant of _until that falls back to the first run when the rule has no
\* occurrence at or before now.
until_fallback_start(d, now) ==
    IF d.duration = None
    THEN ValueError
    ELSE IF NoFrequency(d)
    THEN Some(d.start_time + d.duration.v)
    ELSE LET latest_past_start ==
                 rrule_before(Occurrences(d.recurrence, d.start_time), now)
         IN  IF latest_past_start = None
             THEN Some(d.start_time + d.duration.v)
             ELSE Some(latest_past_start.v + d.duration.v)

\* Dispatch._until(now)
until_(d, now) ==
    IF d.duration = None
    THEN ValueError
    ELSE IF NoFrequency(d)
    THEN Some(d.start_time + d.duration.v)
    ELSE LET latest_past_start ==
                 rrule_before(Occurrences(d.recurrence, d.start_time), now)
         IN  IF latest_past_start = None
             THEN None
             ELSE Some(latest_past_start.v + d.duration.v)

\* Variant of running whose end of run is inclusive (now <= until).
running_end_inclusive(d, type_, now) ==
    IF d.type # type_
    THEN "DIFFERENT_TYPE"
    ELSE IF ~d.active
    THEN "STOPPED"
    ELSE IF now < d.start_time
    THEN "STOPPED"
    ELSE IF d.duration = None
    THEN "RUNNING"
    ELSE LET u == until_(d, now)
         IN  IF u.kind = "Some"
             THEN (IF now <= u.v THEN "RUNNING" ELSE "STOPPED")
             ELSE "STOPPED"

\* Variant of running whose start is exclusive (now <= start_time stops).
running_start_exclusive(d, type_, now) ==
    IF d.type # type_
    THEN "DIFFERENT_TYPE"
    ELSE IF ~d.active
    THEN "STOPPED"
    ELSE IF now <= d.start_time
    THEN "STOPPED"
    ELSE IF d.duration = None
    THEN "RUNNING"
    ELSE LET u == until_(d, now)
         IN  IF u.kind = "Some"
             THEN (IF now < u.v THEN "RUNNING" ELSE "STOPPED")
             ELSE "STOPPED"

\* Variant of running that tests the active flag before the type.
running_active_first(d, type_, now) ==
    IF ~d.active
    THEN "STOPPED"
    ELSE IF d.type # type_
    THEN "DIFFERENT_TYPE"
    ELSE IF now < d.start_time
    THEN "STOPPED"
    ELSE IF d.duration = None
    THEN "RUNNING"
    ELSE LET u == until_(d, now)
         IN  IF u.kind = "Some"
             THEN (IF now < u.v THEN "RUNNING" ELSE "STOPPED")
             ELSE "STOPPED"

\* Dispatch.running(type_), with now the reading of the clock
running(d, type_, now) ==
    IF d.type # type_
    THEN "DIFFERENT_TYPE"
    ELSE IF ~d.active
    THEN "STOPPED"
    ELSE IF now < d.start_time
    THEN "STOPPED"
    ELSE IF d.duration = None
    THEN "RUNNING"
    ELSE LET u == until_(d, now)
         IN  IF u.kind = "Some"
             THEN (IF now < u.v THEN "RUNNING" ELSE "STOPPED")
             ELSE "STOPPED"

\* Variant of until without the test of the active flag.
until_no_active_check(d, now) == until_(d, now)

\* Dispatch.until (property), with now the reading of the clock
until(d, now) ==
    IF ~d.active
    THEN None
    ELSE until_(d, now)

\* Variant of next_run_after whose boundary at start_time is exclusive.
next_run_after_start_exclusive(d, after) ==
    IF NoFrequency(d) \/ d.duration = None
    THEN (IF after >= d.start_time THEN None ELSE Some(d.start_time))
    ELSE IF "UNSPECIFIED" \in d.recurrence.byweekdays
    THEN None
    ELSE rrule_after(Occurrences(d.recurrence, d.start_time), after)

\* Variant of next_run_after that returns start_time whatever after is.
next_run_after_always_start(d, after) ==
    IF NoFrequency(d) \/ d.duration = None
    THEN Some(d.start_time)
    ELSE IF "UNSPECIFIED" \in d.recurrence.byweekdays
    THEN None
    ELSE rrule_after(Occurrences(d.recurrence, d.start_time), after)

\* Variant of next_run_after whose comparison with start_time is flipped.
next_run_after_flipped(d, after) ==
    IF NoFrequency(d) \/ d.duration = None
    THEN (IF after < d.start_time THEN None ELSE Some(d.start_time))
    ELSE IF "UNSPECIFIED" \in d.recurrence.byweekdays
    THEN None
    ELSE rrule_after(Occurrences(d.recurrence, d.start_time), after)

\* Variant of next_run_after that treats a rule with an UNSPECIFIED weekday
\* as a single occurrence at start_time.
next_run_after_unspecified_single(d, after) ==
    IF NoFrequency(d) \/ d.duration = None
         \/ "UNSPECIFIED" \in d.recurrence.byweekdays
    THEN (IF after > d.start_time THEN None ELSE Some(d.start_time))
    ELSE rrule_after(Occurrences(d.recurrence, d.start_time), after)

\* Variant of next_run_after that looks up the rule with inc=False.
next_run_after_exclusive(d, after) ==
    IF NoFrequency(d) \/ d.duration = None
    THEN (IF after > d.start_time THEN None ELSE Some(d.start_time))
    ELSE IF "UNSPECIFIED" \in d.recurrence.byweekdays
    THEN None
    ELSE rrule_after(Occurrences(d.recurrence, d.start_time), after + 1)

\* Variant of next_run_after that drops the weekday filter of the rule.
next_run_after_no_weekdays(d, after) ==
    IF NoFrequency(d) \/ d.duration = None
    THEN (IF after > d.start_time THEN None ELSE Some(d.start_time))
    ELSE IF "UNSPECIFIED" \in d.recurrence.byweekdays
    THEN None
    ELSE rrule_after(
             Occurrences([d.recurrence EXCEPT !.byweekdays = {}],
                         d.start_time), after)

\* Variant of next_run_after that drops the end criteria of the rule.
next_run_after_no_end(d, after) ==
    IF NoFrequency(d) \/ d.duration = None
    THEN (IF after > d.start_time THEN None ELSE Some(d.start_time))
    ELSE IF "UNSPECIFIED" \in d.recurrence.byweekdays
    THEN None
    ELSE rrule_after(
             Occurrences([d.recurrence EXCEPT
                              !.end_criteria = [kind |-> "None", v |-> 0]],
                         d.start_time), after)

\* Dispatch.next_run_after(after)
next_run_after(d, after) ==
    IF NoFrequency(d) \/ d.duration = None
    THEN (IF after > d.start_time THEN None ELSE Some(d.start_time))
    ELSE IF "UNSPECIFIED" \in d.recurrence.byweekdays
    THEN None
    ELSE rrule_after(Occurrences(d.recurrence, d.start_time), after)

\* Dispatch.next_run (property), with now the reading of the clock
next_run(d, now) == next_run_after(d, now)

\* ------------------------------------------------------------------ state
VARIABLES dispatch, res, pb, decoded, dispatches, last_id, events, call,
          clock, streams, receivers

\* dispatch, res: the Dispatch under query and the value of the last query.
\* pb, decoded: a protobuf message and the Dispatch read back from it.
\* dispatches, last_id, events: the state of the FakeService; call: the
\* outcome of the last call of the client; clock: the wall clock that the
\* client and the service read, in half seconds; streams: the broadcasters
\* of the Client class by microgrid; receivers: the receivers that
\* Client.stream returned.
queryvars == <<dispatch, res>>
protovars == <<pb, decoded>>
servicevars ==
    <<dispatches, last_id, events, call, clock, streams, receivers>>

vars ==
    <<dispatch, res, pb, decoded, dispatches, last_id, events, call, clock,
      streams, receivers>>

NoCall == [op |-> "none", type_ |-> "", at |-> 0, state |-> "", ret |-> None]

NoMessage == [set |-> FALSE]
NoDispatch == [set |-> FALSE]
NoClientCall == [op |-> "none"]

\* The protobuf variables before any conversion.
ProtoIdle == pb = NoMessage /\ decoded = NoDispatch

\* FakeService.__init__: no dispatches, no id used, nothing sent.
ServiceInit ==
    /\ dispatches = <<>>
    /\ last_id = 0
    /\ events = <<>>
    /\ call = NoClientCall
    /\ clock = 0
    /\ streams = <<>>
    /\ receivers = <<>>

Init ==
    /\ dispatch \in Dispatch
    /\ res = NoCall
    /\ ProtoIdle
    /\ ServiceInit

Running ==
    \E type_ \in Types, now \in Times :
        /\ res = NoCall
        /\ res' = [op |-> "running", type_ |-> type_, at |-> now,
                   state |-> running(dispatch, type_, now), ret |-> None]
        /\ UNCHANGED <<dispatch, protovars, servicevars>>

Until ==
    \E now \in Times :
        /\ res = NoCall
        /\ res' = [op |-> "until", type_ |-> "", at |-> now,
                   state |-> "", ret |-> until(dispatch, now)]
        /\ UNCHANGED <<dispatch, protovars, servicevars>>

NextRun ==
    \E now \in Times :
        /\ res = NoCall
        /\ res' = [op |-> "next_run", type_ |-> "", at |-> now,
                   state |-> "", ret |-> next_run(dispatch, now)]
        /\ UNCHANGED <<dispatch, protovars, servicevars>>

NextRunAfter ==
    \E after \in Times :
        /\ res = NoCall
        /\ res' = [op |-> "next_run_after", type_ |-> "", at |-> after,
                   state |-> "", ret |-> next_run_after(dispatch, after)]
        /\ UNCHANGED <<dispatch, protovars, servicevars>>

\* The caller drops the returned value; the dispatch is left as it was.
Discard ==
    /\ res # NoCall
    /\ res' = NoCall
    /\ UNCHANGED <<dispatch, protovars, servicevars>>

Next == Running \/ Until \/ NextRun \/ NextRunAfter \/ Discard

Spec == Init /\ [][Next]_vars

TypeOK ==
    /\ dispatch \in Dispatch
    /\ res.state \in RunningState \cup {""}
    /\ res.ret.kind \in {"None", "Some", "ValueError"}

\* ------------------------------------------------- protobuf conversion
\* In this part instants and durations are counted in half seconds, so
\* that a duration can have a sub-second component.
MaxHalfSeconds == 4
TicksPerSecond == 2
NanosPerTick == 500000000

\* to_timestamp: datetime -> Timestamp(seconds, nanos)
to_timestamp(dt) ==
    [seconds |-> dt \div TicksPerSecond,
     nanos |-> (dt % TicksPerSecond) * NanosPerTick]

\* to_datetime: Timestamp -> datetime
to_datetime(ts) == ts.seconds * TicksPerSecond + ts.nanos \div NanosPerTick

\* round(timedelta.total_seconds()): Python rounds halves to even.
RoundSeconds(h) ==
    LET q == h \div TicksPerSecond
    IN  IF h % TicksPerSecond = 0 THEN q
        ELSE IF q % 2 = 0 THEN q ELSE q + 1

\* timedelta(seconds=n)
TimedeltaSeconds(n) == n * TicksPerSecond

\* ComponentCategory.to_proto / from_proto
CategoryToProto(c) ==
    CASE c = "GRID" -> 1
      [] c = "METER" -> 2
      [] c = "BATTERY" -> 5
      [] OTHER -> 0

CategoryFromProto(n) ==
    CASE n = 1 -> "GRID"
      [] n = 2 -> "METER"
      [] n = 5 -> "BATTERY"
      [] OTHER -> "UNSPECIFIED"

\* _component_selector_to_protobuf
component_selector_to_protobuf(selector) ==
    IF selector.kind = "ids"
    THEN [selector |-> "component_ids", ids |-> selector.items,
          categories |-> <<>>]
    ELSE [selector |-> "component_categories", ids |-> <<>>,
          categories |-> [i \in 1..Len(selector.items) |->
                           CategoryToProto(selector.items[i])]]

\* _component_selector_from_protobuf
component_selector_from_protobuf(pb_selector) ==
    IF pb_selector.selector = "component_ids"
    THEN [kind |-> "ids", items |-> pb_selector.ids]
    ELSE [kind |-> "categories",
          items |-> [i \in 1..Len(pb_selector.categories) |->
                      CategoryFromProto(pb_selector.categories[i])]]

\* Struct.update(payload): every number becomes a double.
StructValue(x) ==
    IF x.t = "str"
    THEN [kind |-> "string_value", s |-> x.s, n |-> 0]
    ELSE [kind |-> "number_value", s |-> "", n |-> x.n]

payload_to_struct(payload) ==
    [k \in DOMAIN payload |-> StructValue(payload[k])]

\* MessageToDict(payload): a number_value is read back as a float.
DictValue(x) ==
    IF x.kind = "string_value"
    THEN [t |-> "str", s |-> x.s, n |-> 0]
    ELSE [t |-> "float", s |-> "", n |-> x.n]

MessageToDict(struct) == [k \in DOMAIN struct |-> DictValue(struct[k])]

\* Python ==: an int and a float of the same value are equal.
PyValueEq(a, b) ==
    IF a.t = "str" \/ b.t = "str"
    THEN a.t = b.t /\ a.s = b.s
    ELSE a.n = b.n

PyDictEq(a, b) ==
    /\ DOMAIN a = DOMAIN b
    /\ \A k \in DOMAIN a : PyValueEq(a[k], b[k])

FrequencyToProto(f) ==
    CASE f = "HOURLY" -> 2
      [] f = "DAILY" -> 3
      [] f = "WEEKLY" -> 4
      [] OTHER -> 0

FrequencyFromProto(n) ==
    CASE n = 2 -> "HOURLY"
      [] n = 3 -> "DAILY"
      [] n = 4 -> "WEEKLY"
      [] OTHER -> "UNSPECIFIED"

WeekdayToProto(w) ==
    CASE w = "MONDAY" -> 1
      [] w = "TUESDAY" -> 2
      [] w = "WEDNESDAY" -> 3
      [] w = "THURSDAY" -> 4
      [] w = "FRIDAY" -> 5
      [] w = "SATURDAY" -> 6
      [] w = "SUNDAY" -> 7
      [] OTHER -> 0

WeekdayFromProto(n) ==
    CASE n = 1 -> "MONDAY"
      [] n = 2 -> "TUESDAY"
      [] n = 3 -> "WEDNESDAY"
      [] n = 4 -> "THURSDAY"
      [] n = 5 -> "FRIDAY"
      [] n = 6 -> "SATURDAY"
      [] n = 7 -> "SUNDAY"
      [] OTHER -> "UNSPECIFIED"

\* RecurrenceRule.to_protobuf
recurrence_to_protobuf(rule) ==
    [freq |-> FrequencyToProto(rule.frequency),
     interval |-> rule.interval,
     end_criteria |-> rule.end_criteria,
     byweekdays |-> {WeekdayToProto(w) : w \in rule.byweekdays}]

\* RecurrenceRule.from_protobuf
recurrence_from_protobuf(pb_rule) ==
    [frequency |-> FrequencyFromProto(pb_rule.freq),
     interval |-> pb_rule.interval,
     end_criteria |-> pb_rule.end_criteria,
     byweekdays |-> {WeekdayFromProto(n) : n \in pb_rule.byweekdays}]

\* A Python conditional on a timedelta: None and timedelta(0) are falsy.
Truthy(duration) == duration # None /\ duration.v # 0

\* Dispatch.to_protobuf
to_protobuf(d) ==
    [set |-> TRUE,
     metadata |->
       [dispatch_id |-> d.id,
        create_time |-> to_timestamp(d.create_time),
        modification_time |-> to_timestamp(d.update_time)],
     data |->
       [type |-> d.type,
        start_time |-> to_timestamp(d.start_time),
        duration |-> IF Truthy(d.duration)
                     THEN [set |-> TRUE, v |-> RoundSeconds(d.duration.v)]
                     ELSE [set |-> FALSE, v |-> 0],
        selector |-> component_selector_to_protobuf(d.selector),
        is_active |-> d.active,
        is_dry_run |-> d.dry_run,
        payload |-> payload_to_struct(d.payload),
        recurrence |-> recurrence_to_protobuf(d.recurrence)]]

\* Dispatch.from_protobuf
from_protobuf(pb_object) ==
    [set |-> TRUE,
     id |-> pb_object.metadata.dispatch_id,
     type |-> pb_object.data.type,
     create_time |-> to_datetime(pb_object.metadata.create_time),
     update_time |-> to_datetime(pb_object.metadata.modification_time),
     start_time |-> to_datetime(pb_object.data.start_time),
     duration |-> IF pb_object.data.duration.v # 0
                  THEN Some(TimedeltaSeconds(pb_object.data.duration.v))
                  ELSE None,
     selector |-> component_selector_from_protobuf(pb_object.data.selector),
     active |-> pb_object.data.is_active,
     dry_run |-> pb_object.data.is_dry_run,
     payload |-> MessageToDict(pb_object.data.payload),
     recurrence |-> recurrence_from_protobuf(pb_object.data.recurrence)]

\* Dispatch.__eq__ (dataclass): field by field with Python ==.
DispatchEq(a, b) ==
    /\ a.id = b.id
    /\ a.type = b.type
    /\ a.create_time = b.create_time
    /\ a.update_time = b.update_time
    /\ a.start_time = b.start_time
    /\ a.duration = b.duration
    /\ a.selector = b.selector
    /\ a.active = b.active
    /\ a.dry_run = b.dry_run
    /\ PyDictEq(a.payload, b.payload)
    /\ a.recurrence = b.recurrence

Selectors ==
    {[kind |-> "ids", items |-> <<1, 2>>],
     [kind |-> "categories", items |-> <<"BATTERY">>]}

Payloads ==
    {[k \in {} |-> [t |-> "str", s |-> "", n |-> 0]],
     [k \in {"key"} |-> [t |-> "str", s |-> "value", n |-> 0]],
     [k \in {"key"} |-> [t |-> "int", s |-> "", n |-> 1]]}

ProtoRules ==
    {[frequency |-> "UNSPECIFIED", interval |-> 0,
      end_criteria |-> [kind |-> "None", v |-> 0], byweekdays |-> {}],
     [frequency |-> "WEEKLY", interval |-> 2,
      end_criteria |-> [kind |-> "count", v |-> 2],
      byweekdays |-> {"MONDAY", "SUNDAY"}]}

\* The dispatches that are converted.
ProtoDispatch ==
    [set : {TRUE},
     id : {1},
     type : {"test"},
     create_time : {2},
     update_time : {3},
     start_time : {4, 5},
     duration : {None} \cup {Some(h) : h \in 0..MaxHalfSeconds},
     selector : Selectors,
     active : BOOLEAN,
     dry_run : BOOLEAN,
     payload : Payloads,
     recurrence : ProtoRules]

InitProto ==
    /\ dispatch \in ProtoDispatch
    /\ res = NoCall
    /\ ProtoIdle
    /\ ServiceInit

\* pb = dispatch.to_protobuf()
ToProtobuf ==
    /\ pb = NoMessage
    /\ pb' = to_protobuf(dispatch)
    /\ UNCHANGED <<dispatch, res, decoded, servicevars>>

\* decoded = Dispatch.from_protobuf(pb)
FromProtobuf ==
    /\ pb # NoMessage
    /\ decoded = NoDispatch
    /\ decoded' = from_protobuf(pb)
    /\ UNCHANGED <<dispatch, res, pb, servicevars>>

NextProto == ToProtobuf \/ FromProtobuf

SpecProto == InitProto /\ [][NextProto]_vars

\* ------------------------------------------------- client and FakeService
MaxClock == 2
MaxId == 2

Microgrids == {1, 2}

ALL_KEY == "all"
NONE_KEY == "none"
Keys == {ALL_KEY, NONE_KEY, "other"}

\* The metadata of a request: with or without a "key" entry.
Metadata ==
    {[has_key |-> FALSE, key |-> ""]} \cup
    {[has_key |-> TRUE, key |-> k] : k \in Keys}

\* The start_time argument of Client.create: the literal "NOW", or a
\* datetime with or without timezone information.
NOW == [kind |-> "NOW", aware |-> TRUE, t |-> 0]

\* The start times a caller passes when the clock reads now: "NOW", or a
\* datetime just before, at or just after now.
StartArgs(now) ==
    {NOW} \cup [kind : {"datetime"}, aware : BOOLEAN,
                t : {t \in {now - 1, now, now + 1} : t >= 0}]

\* The dispatch of a test, whose schedule fields Client.create is given.
DefaultRule ==
    [frequency |-> "UNSPECIFIED", interval |-> 0,
     end_criteria |-> [kind |-> "None", v |-> 0], byweekdays |-> {}]

DefaultTarget == [kind |-> "ids", items |-> <<1, 2>>]
OtherTarget == [kind |-> "categories", items |-> <<"BATTERY">>]
DefaultPayload == [k \in {"key"} |-> [t |-> "str", s |-> "value", n |-> 0]]

\* Variant of the checks of Client.create without the timezone check.
create_check_past_only(start_time, now) ==
    IF start_time.kind = "datetime" /\ start_time.t <= now
    THEN "ValueError"
    ELSE "ok"

\* The checks of Client.create on start_time, now being datetime.now().
create_check(start_time, now) ==
    IF start_time.kind = "datetime"
    THEN IF start_time.t <= now
         THEN "ValueError"
         ELSE IF ~start_time.aware THEN "ValueError" ELSE "ok"
    ELSE "ok"

\* Variant of the access check that accepts every key that is present.
check_access_any_key(metadata) ==
    IF ~metadata.has_key THEN "UNAUTHENTICATED" ELSE "ok"

\* FakeService._check_access
check_access(metadata) ==
    IF ~metadata.has_key THEN "UNAUTHENTICATED"
    ELSE IF metadata.key = NONE_KEY THEN "PERMISSION_DENIED"
    ELSE IF metadata.key # ALL_KEY THEN "UNAUTHENTICATED"
    ELSE "ok"

AccessErrors == {"UNAUTHENTICATED", "PERMISSION_DENIED"}

\* DispatchCreateRequest.to_protobuf
request_to_protobuf(request) ==
    [microgrid_id |-> request.microgrid_id,
     type |-> request.type,
     start_immediately |-> request.start_time.kind = "NOW",
     start_time |-> to_timestamp(request.start_time.t),
     duration |-> IF request.duration = None
                  THEN [set |-> FALSE, v |-> 0]
                  ELSE [set |-> TRUE, v |-> RoundSeconds(request.duration.v)],
     selector |-> component_selector_to_protobuf(request.selector),
     is_active |-> request.active,
     is_dry_run |-> request.dry_run,
     payload |-> payload_to_struct(request.payload),
     recurrence |-> recurrence_to_protobuf(request.recurrence)]

\* DispatchCreateRequest.from_protobuf
request_from_protobuf(pb_request) ==
    [microgrid_id |-> pb_request.microgrid_id,
     type |-> pb_request.type,
     start_time |-> IF pb_request.start_immediately
                    THEN NOW
                    ELSE [kind |-> "datetime", aware |-> TRUE,
                          t |-> to_datetime(pb_request.start_time)],
     duration |-> IF pb_request.duration.set
                  THEN Some(TimedeltaSeconds(pb_request.duration.v))
                  ELSE None,
     selector |-> component_selector_from_protobuf(pb_request.selector),
     active |-> pb_request.is_active,
     dry_run |-> pb_request.is_dry_run,
     payload |-> MessageToDict(pb_request.payload),
     recurrence |-> recurrence_from_protobuf(pb_request.recurrence)]

\* _dispatch_from_request, now being the datetime.now() it reads for "NOW"
dispatch_from_request(request, id, create_time, update_time, now) ==
    [set |-> TRUE,
     id |-> id,
     type |-> request.type,
     create_time |-> create_time,
     update_time |-> update_time,
     start_time |-> IF request.start_time.kind = "NOW"
                    THEN now ELSE request.start_time.t,
     duration |-> request.duration,
     selector |-> request.selector,
     active |-> request.active,
     dry_run |-> request.dry_run,
     payload |-> request.payload,
     recurrence |-> request.recurrence]

\* dict.get(microgrid_id, [])
GridDispatches(m) == IF m \in DOMAIN dispatches THEN dispatches[m] ELSE <<>>

\* next((i for i, d in enumerate(grid_dispatches) if d.id == dispatch_id),
\* None): the first index with that id, 0 standing for None.
IndexOf(grid_dispatches, dispatch_id) ==
    LET found == {i \in 1..Len(grid_dispatches) :
                    grid_dispatches[i].id = dispatch_id}
    IN  IF found = {} THEN 0
        ELSE CHOOSE i \in found : \A j \in found : i <= j

\* list.remove at a known index
RemoveAt(q, i) == [j \in 1..(Len(q) - 1) |-> IF j < i THEN q[j] ELSE q[j + 1]]

\* self.dispatches with the list of microgrid m replaced
WithGrid(m, q) ==
    [g \in DOMAIN dispatches \cup {m} |-> IF g = m THEN q ELSE dispatches[g]]

\* The readings a later datetime.now() can give after the reading c.
LaterReadings(c) == {t \in {c, c + 1} : t <= MaxClock}

\* self._stream_sender.send(StreamEvent(microgrid_id, DispatchEvent(...)))
StreamEvent(m, d, event) == [microgrid_id |-> m, event |-> event, dispatch |-> d]

\* ---- Client.update: new_fields is a sequence of entries, each with the
\* key split at "." and a value.
BoolField(key, b) == [key |-> key, b |-> b, n |-> 0, d |-> None]
IntField(key, n) == [key |-> key, b |-> FALSE, n |-> n, d |-> None]
DurationField(key, d) == [key |-> key, b |-> FALSE, n |-> 0, d |-> d]

NewFields ==
    {<<BoolField(<<"active">>, FALSE)>>,
     <<DurationField(<<"duration">>, Some(4))>>,
     <<BoolField(<<"dry_run">>, TRUE)>>,
     <<IntField(<<"type">>, 0)>>,
     <<BoolField(<<"is_active">>, FALSE),
       IntField(<<"recurrence", "bogus">>, 0)>>}

\* Variant of the match of Client.update that lets dry_run through.
update_field_known_dry_run(path) ==
    path[1] \in {"start_time", "duration", "target", "is_active", "payload",
                 "active", "dry_run"}

\* The match of Client.update: the cases that do not raise ValueError.
update_field_known(path) ==
    IF path[1] = "recurrence"
    THEN path[2] \in {"freq", "frequency", "interval", "end_criteria",
                      "byminutes", "byhours", "byweekdays", "bymonthdays",
                      "bymonths"}
    ELSE path[1] \in {"start_time", "duration", "target", "is_active",
                      "payload", "active"}

\* The key that Client.update appends to update_mask.paths.
mask_key(path) ==
    IF path = <<"active">> THEN <<"is_active">>
    ELSE IF path = <<"recurrence", "frequency">> THEN <<"recurrence", "freq">>
    ELSE path

\* msg.update after one entry of new_fields. The values of target, payload
\* and of the remaining recurrence fields are not carried by this model.
update_set(update, field) ==
    LET path == field.key
    IN  IF path[1] = "start_time"
        THEN [update EXCEPT !.start_time = to_timestamp(field.n)]
        ELSE IF path[1] = "duration"
        THEN [update EXCEPT !.duration =
                IF field.d = None THEN 0 ELSE RoundSeconds(field.d.v)]
        ELSE IF path[1] \in {"is_active", "active"}
        THEN [update EXCEPT !.is_active = field.b]
        ELSE IF path[1] = "recurrence" /\ path[2] \in {"freq", "frequency"}
        THEN [update EXCEPT !.recurrence.freq = field.n]
        ELSE IF path[1] = "recurrence" /\ path[2] = "interval"
        THEN [update EXCEPT !.recurrence.interval = field.n]
        ELSE update

EmptyUpdate ==
    [start_time |-> to_timestamp(0), duration |-> 0, is_active |-> FALSE,
     recurrence |-> [freq |-> 0, interval |-> 0]]

RECURSIVE update_fold(_, _, _)
update_fold(update, new_fields, k) ==
    IF k > Len(new_fields) THEN update
    ELSE update_fold(update_set(update, new_fields[k]), new_fields, k + 1)

\* The request that Client.update builds, or the ValueError it raises.
update_message(microgrid_id, dispatch_id, new_fields) ==
    IF \E k \in 1..Len(new_fields) : ~update_field_known(new_fields[k].key)
    THEN [error |-> "ValueError"]
    ELSE [error |-> "",
          microgrid_id |-> microgrid_id,
          dispatch_id |-> dispatch_id,
          update |-> update_fold(EmptyUpdate, new_fields, 1),
          update_mask |-> [k \in 1..Len(new_fields) |->
                             mask_key(new_fields[k].key)]]

\* FakeService.UpdateMicrogridDispatch: one path of the update mask
apply_path(pb_dispatch, update, path) ==
    IF path[1] = "is_active"
    THEN [pb_dispatch EXCEPT !.data.is_active = update.is_active]
    ELSE IF path[1] = "duration"
    THEN [pb_dispatch EXCEPT
            !.data.duration = [set |-> TRUE, v |-> update.duration]]
    ELSE IF path[1] = "start_time"
    THEN [pb_dispatch EXCEPT !.data.start_time = update.start_time]
    ELSE IF path[1] = "recurrence" /\ path[2] = "freq"
    THEN [pb_dispatch EXCEPT !.data.recurrence.freq = update.recurrence.freq]
    ELSE IF path[1] = "recurrence" /\ path[2] = "interval"
    THEN [pb_dispatch EXCEPT
            !.data.recurrence.interval = update.recurrence.interval]
    ELSE pb_dispatch

RECURSIVE apply_mask(_, _, _, _)
apply_mask(pb_dispatch, update, paths, k) ==
    IF k > Len(paths) THEN pb_dispatch
    ELSE apply_mask(apply_path(pb_dispatch, update, paths[k]),
                    update, paths, k + 1)

\* FakeService.UpdateMicrogridDispatch: the dispatch that replaces the
\* stored one.
updated_dispatch(stored, request, now) ==
    [from_protobuf(apply_mask(to_protobuf(stored), request.update,
                              request.update_mask, 1))
       EXCEPT !.update_time = now]

\* ---- Client.list and FakeService._filter_dispatch
Unset == [set |-> FALSE, v |-> FALSE]
Given(b) == [set |-> TRUE, v |-> b]

NoFilter ==
    [targets |-> <<>>, start_from |-> None, start_to |-> None,
     end_from |-> None, end_to |-> None, active |-> Unset, dry_run |-> Unset]

ListFilters ==
    {NoFilter,
     [NoFilter EXCEPT !.targets = <<DefaultTarget>>],
     [NoFilter EXCEPT !.targets = <<DefaultTarget, OtherTarget>>],
     [NoFilter EXCEPT !.start_from = Some(1), !.start_to = Some(2)],
     [NoFilter EXCEPT !.end_from = Some(1), !.end_to = Some(3)],
     [NoFilter EXCEPT !.active = Given(TRUE)],
     [NoFilter EXCEPT !.dry_run = Given(TRUE)]}

\* to_interval of Client.list
to_interval(from_, to) ==
    IF from_ # None \/ to # None
    THEN [set |-> TRUE,
          from_ |-> IF from_ = None THEN None ELSE Some(to_timestamp(from_.v)),
          to |-> IF to = None THEN None ELSE Some(to_timestamp(to.v))]
    ELSE [set |-> FALSE, from_ |-> None, to |-> None]

\* The ListMicrogridDispatchesRequest that Client.list builds.
list_request(microgrid_id, f) ==
    [microgrid_id |-> microgrid_id,
     filter |->
       [targets |-> [i \in 1..Len(f.targets) |->
                       component_selector_to_protobuf(f.targets[i])],
        start_time_interval |-> to_interval(f.start_from, f.start_to),
        end_time_interval |-> to_interval(f.end_from, f.end_to),
        is_active |-> f.active,
        is_dry_run |-> f.dry_run]]

\* FakeService._filter_dispatch
filter_dispatch(d, request) ==
    LET f == request.filter
    IN  /\ \A i \in 1..Len(f.targets) :
              f.targets[i] = component_selector_to_protobuf(d.selector)
        /\ f.start_time_interval.set =>
              /\ f.start_time_interval.from_ # None =>
                    ~(d.start_time < to_datetime(f.start_time_interval.from_.v))
              /\ f.start_time_interval.to # None =>
                    ~(d.start_time >= to_datetime(f.start_time_interval.to.v))
        /\ f.end_time_interval.set =>
              /\ f.end_time_interval.from_ # None =>
                    ~(/\ Truthy(d.duration)
                      /\ d.start_time + d.duration.v
                           < to_datetime(f.end_time_interval.from_.v))
              /\ f.end_time_interval.to # None =>
                    ~(/\ Truthy(d.duration)
                      /\ d.start_time + d.duration.v
                           >= to_datetime(f.end_time_interval.to.v))
        /\ f.is_active.set => d.active = f.is_active.v
        /\ f.is_dry_run.set => d.dry_run = f.is_dry_run.v

\* filter(lambda d: ..., grid_dispatches)
RECURSIVE FilterSeq(_, _, _)
FilterSeq(q, request, k) ==
    IF k > Len(q) THEN <<>>
    ELSE IF filter_dispatch(q[k], request)
    THEN <<q[k]>> \o FilterSeq(q, request, k + 1)
    ELSE FilterSeq(q, request, k + 1)

\* The page that Client.list yields from the response of the service.
list_page(grid_dispatches, request) ==
    LET kept == FilterSeq(grid_dispatches, request, 1)
    IN  [i \in 1..Len(kept) |-> from_protobuf(to_protobuf(kept[i]))]

\* ---- streams
MaxEvents == 2
MaxReceivers == 2

\* Two Client instances on the same service, with different keys.
Clients == {"a", "b"}
ClientKey(c) == IF c = "a" THEN ALL_KEY ELSE NONE_KEY
ClientMetadata(c) == [has_key |-> TRUE, key |-> ClientKey(c)]

\* Variant of the id assignment that takes the last id again.
next_id_reused(id) == IF id = 0 THEN 1 ELSE id

\* self._last_id += 1
next_id(id) == id + 1

\* Variant of the delivery that ignores the microgrid of the request.
delivered_any_microgrid(q, message) ==
    [i \in 1..Len(q) |->
       IF q[i].live
       THEN [q[i] EXCEPT !.received = Append(@, message)]
       ELSE q[i]]

\* What the receivers hold after the service sent message: the stream of
\* StreamMicrogridDispatches yields it when its microgrid is the one of
\* the request, and the broadcaster hands it to each of its receivers.
delivered(q, message) ==
    [i \in 1..Len(q) |->
       IF q[i].live /\ message.microgrid_id = q[i].microgrid_id
       THEN [q[i] EXCEPT !.received = Append(@, message)]
       ELSE q[i]]

\* Client._get_stream: the broadcaster for microgrid m on client c.
get_stream(c, m) ==
    IF m \in DOMAIN streams /\ ~streams[m].closed
    THEN streams[m]
    ELSE [owner |-> c,
          live |-> check_access(ClientMetadata(c)) = "ok",
          closed |-> FALSE]

\* The dispatches that a test stores with FakeClient.set_dispatches.
FixtureDispatch ==
    [set |-> TRUE, id |-> MaxId + 1, type |-> "test", create_time |-> 0,
     update_time |-> 0, start_time |-> 1, duration |-> Some(0),
     selector |-> OtherTarget, active |-> TRUE, dry_run |-> FALSE,
     payload |-> DefaultPayload, recurrence |-> DefaultRule]

InitService ==
    /\ dispatch \in {[type |-> "TypeA", start_time |-> 1, duration |-> None,
                      active |-> TRUE, recurrence |-> DefaultRule]}
    /\ res = NoCall
    /\ ProtoIdle
    /\ ServiceInit

\* Time passes between two calls.
Tick ==
    /\ clock < MaxClock
    /\ clock' = clock + 1
    /\ UNCHANGED <<queryvars, protovars, dispatches, last_id, events, call,
                   streams, receivers>>

\* FakeClient.set_dispatches, before the calls of a test
SetDispatches ==
    \E m \in Microgrids :
      /\ dispatches = <<>>
      /\ events = <<>>
      /\ dispatches' = WithGrid(m, <<FixtureDispatch>>)
      /\ call' = [op |-> "set_dispatches", microgrid_id |-> m]
      /\ UNCHANGED <<queryvars, protovars, last_id, events, clock, streams,
                     receivers>>

\* Client.create, with FakeService.CreateMicrogridDispatch behind the stub,
\* for the microgrids, the metadata and the kinds of start_time given.
Create(grids, metadatas, kinds) ==
    \E m \in grids, metadata \in metadatas,
       start_time \in {s \in StartArgs(clock) : s.kind \in kinds} :
      LET request == [microgrid_id |-> m, type |-> "test",
                      start_time |-> start_time, duration |-> Some(2),
                      selector |-> DefaultTarget, active |-> TRUE,
                      dry_run |-> FALSE, payload |-> DefaultPayload,
                      recurrence |-> DefaultRule]
          report(outcome, id) ==
              [op |-> "create", microgrid_id |-> m, metadata |-> metadata,
               start_time |-> start_time, at |-> clock,
               outcome |-> outcome, id |-> id]
      IN  IF create_check(start_time, clock) # "ok"
          THEN /\ call' = report(create_check(start_time, clock), 0)
               /\ UNCHANGED <<queryvars, protovars, dispatches, last_id,
                              events, clock, streams, receivers>>
          ELSE IF check_access(metadata) # "ok"
          THEN /\ call' = report(check_access(metadata), 0)
               /\ UNCHANGED <<queryvars, protovars, dispatches, last_id,
                              events, clock, streams, receivers>>
          ELSE /\ last_id < MaxId
               /\ Len(events) < MaxEvents
               /\ \E update_time \in LaterReadings(clock) :
                    LET new_dispatch ==
                            dispatch_from_request(
                                request_from_protobuf(
                                    request_to_protobuf(request)),
                                next_id(last_id), clock, update_time,
                                update_time)
                        message == StreamEvent(m, new_dispatch, "CREATED")
                    IN  /\ last_id' = next_id(last_id)
                        /\ dispatches' =
                             WithGrid(m, Append(GridDispatches(m),
                                                new_dispatch))
                        /\ events' = Append(events, message)
                        /\ receivers' = delivered(receivers, message)
                        /\ clock' = update_time
                        /\ call' = report("ok", next_id(last_id))
               /\ UNCHANGED <<queryvars, protovars, streams>>

\* Client.update, with FakeService.UpdateMicrogridDispatch behind the stub
Update(grids, metadatas, fields) ==
    \E m \in grids, i \in 1..(MaxId + 1), metadata \in metadatas,
       new_fields \in fields :
      LET msg == update_message(m, i, new_fields)
          report(outcome) ==
              [op |-> "update", microgrid_id |-> m, metadata |-> metadata,
               id |-> i, new_fields |-> new_fields, at |-> clock,
               outcome |-> outcome]
          index == IndexOf(GridDispatches(m), i)
          failure ==
              IF msg.error # "" THEN msg.error
              ELSE IF check_access(metadata) # "ok"
              THEN check_access(metadata)
              ELSE IF m \notin DOMAIN dispatches THEN "KeyError"
              ELSE IF index = 0 THEN "NOT_FOUND"
              ELSE ""
      IN  IF failure # ""
          THEN /\ call' = report(failure)
               /\ UNCHANGED <<queryvars, protovars, dispatches, last_id,
                              events, clock, streams, receivers>>
          ELSE /\ Len(events) < MaxEvents
               /\ LET new_dispatch ==
                          updated_dispatch(dispatches[m][index], msg, clock)
                      message == StreamEvent(m, new_dispatch, "UPDATED")
                  IN  /\ dispatches' =
                           WithGrid(m, [dispatches[m] EXCEPT
                                          ![index] = new_dispatch])
                      /\ events' = Append(events, message)
                      /\ receivers' = delivered(receivers, message)
               /\ call' = report("ok")
               /\ UNCHANGED <<queryvars, protovars, last_id, clock, streams>>

\* Client.get, with FakeService.GetMicrogridDispatch behind the stub
Get(grids, metadatas) ==
    \E m \in grids, i \in 1..(MaxId + 1), metadata \in metadatas :
      LET index == IndexOf(GridDispatches(m), i)
          outcome ==
              IF check_access(metadata) # "ok" THEN check_access(metadata)
              ELSE IF index = 0 THEN "NOT_FOUND"
              ELSE "ok"
      IN  /\ call' =
               [op |-> "get", microgrid_id |-> m, metadata |-> metadata,
                id |-> i, outcome |-> outcome,
                result |-> IF outcome = "ok"
                           THEN <<from_protobuf(
                                    to_protobuf(dispatches[m][index]))>>
                           ELSE <<>>]
          /\ UNCHANGED <<queryvars, protovars, dispatches, last_id, events,
                         clock, streams, receivers>>

\* Client.delete, with FakeService.DeleteMicrogridDispatch behind the stub
Delete(grids, metadatas) ==
    \E m \in grids, i \in 1..(MaxId + 1), metadata \in metadatas :
      LET index == IndexOf(GridDispatches(m), i)
          report(outcome) ==
              [op |-> "delete", microgrid_id |-> m, metadata |-> metadata,
               id |-> i, outcome |-> outcome]
      IN  IF check_access(metadata) # "ok"
          THEN /\ call' = report(check_access(metadata))
               /\ UNCHANGED <<queryvars, protovars, dispatches, last_id,
                              events, clock, streams, receivers>>
          ELSE IF index = 0
          THEN /\ call' = report("NOT_FOUND")
               /\ UNCHANGED <<queryvars, protovars, dispatches, last_id,
                              events, clock, streams, receivers>>
          ELSE /\ Len(events) < MaxEvents
               /\ LET message ==
                          StreamEvent(m, dispatches[m][index], "DELETED")
                  IN  /\ dispatches' =
                           WithGrid(m, RemoveAt(dispatches[m], index))
                      /\ events' = Append(events, message)
                      /\ receivers' = delivered(receivers, message)
               /\ call' = report("ok")
               /\ UNCHANGED <<queryvars, protovars, last_id, clock, streams>>

\* Client.list, with FakeService.ListMicrogridDispatches behind the stub
List(grids, metadatas, filters) ==
    \E m \in grids, metadata \in metadatas, f \in filters :
      LET request == list_request(m, f)
          outcome == check_access(metadata)
      IN  /\ call' =
               [op |-> "list", microgrid_id |-> m, metadata |-> metadata,
                filter |-> f, outcome |-> outcome,
                result |-> IF outcome = "ok"
                           THEN list_page(GridDispatches(m), request)
                           ELSE <<>>]
          /\ UNCHANGED <<queryvars, protovars, dispatches, last_id, events,
                         clock, streams, receivers>>

\* Client.stream: a new receiver on the broadcaster of the microgrid, whose
\* stream is StreamMicrogridDispatches called with the key of the client
\* that created the broadcaster.
Stream(grids) ==
    \E c \in Clients, m \in grids :
      LET broadcaster == get_stream(c, m)
      IN  /\ Len(receivers) < MaxReceivers
          /\ streams' = [g \in DOMAIN streams \cup {m} |->
                           IF g = m THEN broadcaster ELSE streams[g]]
          /\ receivers' =
               Append(receivers,
                      [client |-> c, microgrid_id |-> m,
                       owner |-> broadcaster.owner,
                       live |-> broadcaster.live,
                       since |-> Len(events), received |-> <<>>])
          /\ call' = [op |-> "stream", microgrid_id |-> m, client |-> c,
                      owner |-> broadcaster.owner]
          /\ UNCHANGED <<queryvars, protovars, dispatches, last_id, events,
                         clock>>

\* The stream of a broadcaster ends when the service refuses its key; the
\* broadcaster then closes its channel.
StreamEnds ==
    \E m \in DOMAIN streams :
      /\ ~streams[m].live
      /\ ~streams[m].closed
      /\ streams' = [streams EXCEPT ![m].closed = TRUE]
      /\ UNCHANGED <<queryvars, protovars, dispatches, last_id, events,
                     call, clock, receivers>>

\* The metadata of a client whose key has access to everything.
Authorized == {ClientMetadata("a")}

StartKinds == {"NOW", "datetime"}

\* The new_fields that Client.update accepts.
KnownFields ==
    {f \in NewFields : \A k \in 1..Len(f) : update_field_known(f[k].key)}

\* Creating dispatches at any start time, with any key.
NextCreate ==
    \/ Tick
    \/ Create(Microgrids, Metadata, StartKinds)

SpecCreate == InitService /\ [][NextCreate]_vars

\* The calls of a client whose key has access, as time passes.
NextService ==
    \/ Tick
    \/ SetDispatches
    \/ Create(Microgrids, Authorized, {"NOW"})
    \/ Update(Microgrids, Authorized, KnownFields)
    \/ Get(Microgrids, Authorized)
    \/ Delete(Microgrids, Authorized)

SpecService == InitService /\ [][NextService]_vars

\* The calls on one microgrid with any key and any new_fields.
NextAccess ==
    \/ Create({1}, Metadata, {"NOW"})
    \/ Update({1}, Metadata, NewFields)
    \/ Get({1}, Metadata)
    \/ Delete({1}, Metadata)
    \/ List({1}, Metadata, {NoFilter})

SpecAccess == InitService /\ [][NextAccess]_vars

\* Listing what was stored.
NextList ==
    \/ SetDispatches
    \/ Create(Microgrids, Authorized, {"NOW"})
    \/ List(Microgrids, Authorized, ListFilters)

SpecList == InitService /\ [][NextList]_vars

\* Changes of the stored dispatches while clients hold streams.
NextStream ==
    \/ Create(Microgrids, Authorized, {"NOW"})
    \/ Update(Microgrids, Authorized, {<<BoolField(<<"active">>, FALSE)>>})
    \/ Delete(Microgrids, Authorized)
    \/ Stream(Microgrids)
    \/ StreamEnds

SpecStream == InitService /\ [][NextStream]_vars

\* ================================================================ claims
HasDuration == dispatch.duration # None
Start == dispatch.start_time
Dur == dispatch.duration.v
Occs == Occurrences(dispatch.recurrence, dispatch.start_time)
RunningAs(t) == running(dispatch, dispatch.type, t)

\* C1: an active dispatch of the requested type with no real frequency and
\* duration d is RUNNING at now exactly when start_time <= now <
\* start_time + d, and STOPPED at every other now.
C1_OneShotWindow ==
    (/\ res.op = "running"
     /\ res.type_ = dispatch.type
     /\ dispatch.active
     /\ NoFrequency(dispatch)
     /\ HasDuration)
    => /\ res.state \in {"RUNNING", "STOPPED"}
       /\ res.state = "RUNNING" <=> (Start <= res.at /\ res.at < Start + Dur)
       /\ res.at >= Start + Dur => res.state = "STOPPED"

C1_Witness ==
    /\ res.op = "running"
    /\ res.type_ = dispatch.type
    /\ dispatch.active
    /\ NoFrequency(dispatch)
    /\ HasDuration
    /\ Dur > 0
    /\ res.at = Start + Dur
    /\ res.state = "STOPPED"

\* C2: an active dispatch without a duration, with or without a recurrence
\* rule, is RUNNING at every now >= start_time and STOPPED at every now <
\* start_time; once RUNNING it is RUNNING at every later instant.
C2_InfiniteRunsForever ==
    (/\ res.op = "running"
     /\ res.type_ = dispatch.type
     /\ dispatch.active
     /\ ~HasDuration)
    => /\ res.at >= Start => res.state = "RUNNING"
       /\ res.at < Start => res.state = "STOPPED"
       /\ res.state = "RUNNING" =>
            \A t \in Times : t >= res.at => RunningAs(t) = "RUNNING"

C2_Witness ==
    /\ res.op = "running"
    /\ res.type_ = dispatch.type
    /\ dispatch.active
    /\ ~HasDuration
    /\ ~NoFrequency(dispatch)
    /\ res.at = Start
    /\ res.state = "RUNNING"

\* C3: running(requested_type) is DIFFERENT_TYPE exactly when the type of
\* the dispatch differs from requested_type, whatever active, start_time,
\* duration, recurrence and now are.
C3_TypeCheckFirst ==
    res.op = "running"
    => (res.state = "DIFFERENT_TYPE" <=> dispatch.type # res.type_)

C3_Witness ==
    /\ res.op = "running"
    /\ dispatch.type # res.type_
    /\ ~dispatch.active
    /\ res.at < Start
    /\ res.state = "DIFFERENT_TYPE"

\* C4: until is the instant at which the current run ends, and is none
\* whenever the dispatch is not running at the reference instant
\* (inactive, not yet started, or already ended).
C4_UntilNoneUnlessRunning ==
    (res.op = "until" /\ HasDuration)
    => /\ RunningAs(res.at) # "RUNNING" => res.ret = None
       /\ RunningAs(res.at) = "RUNNING" =>
            /\ res.ret.kind = "Some"
            /\ res.ret.v > res.at

\* C5: until fails with ValueError, never a silent none, for every dispatch
\* whose duration is absent, whatever its active flag, start_time and
\* recurrence.
C5_UntilRaisesWithoutDuration ==
    (res.op = "until" /\ ~HasDuration) => res.ret = ValueError

C7_UntilDefinedIffRunning ==
    (res.op = "until" /\ HasDuration)
    => /\ res.ret.kind = "Some" => RunningAs(res.at) = "RUNNING"
       /\ RunningAs(res.at) = "RUNNING" =>
            (res.ret.kind = "Some" /\ res.at < res.ret.v)

\* C8: for every inactive dispatch, running(matching type) is STOPPED at
\* every now, and until is none when a duration is present, whatever
\* start_time and recurrence are.
C8_InactiveStopped ==
    ~dispatch.active
    => /\ (res.op = "running" /\ res.type_ = dispatch.type)
            => res.state = "STOPPED"
       /\ (res.op = "until" /\ HasDuration) => res.ret = None

C8_Witness ==
    /\ ~dispatch.active
    /\ res.op = "until"
    /\ HasDuration
    /\ Start <= res.at
    /\ res.at < Start + Dur
    /\ res.ret = None

\* C9: for a dispatch with no real frequency, or with absent duration (even
\* with a recurrence rule), next_run_after(after) is start_time when after
\* <= start_time (boundary inclusive) and none when after > start_time.
C9_SingleOccurrence ==
    (res.op = "next_run_after" /\ (NoFrequency(dispatch) \/ ~HasDuration))
    => /\ res.at <= Start => res.ret = Some(Start)
       /\ res.at > Start => res.ret = None

C9_Witness ==
    /\ res.op = "next_run_after"
    /\ ~NoFrequency(dispatch)
    /\ ~HasDuration
    /\ res.at = Start
    /\ res.ret = Some(Start)

\* C10: for every dispatch and every instant after, next_run_after(after)
\* is either none or an instant >= after.
C10_NeverPast ==
    res.op = "next_run_after"
    => \/ res.ret = None
       \/ (res.ret.kind = "Some" /\ res.ret.v >= res.at)

C10_Witness ==
    /\ res.op = "next_run_after"
    /\ ~NoFrequency(dispatch)
    /\ HasDuration
    /\ res.at > Start
    /\ res.ret.kind = "Some"
    /\ res.ret.v > res.at

Rule == dispatch.recurrence
Recurs == HasDuration /\ ~NoFrequency(dispatch)

\* C11: next_run_after is monotone in its argument: for after1 <= after2,
\* if next_run_after(after1) is none then next_run_after(after2) is none,
\* and if both are values then next_run_after(after1) <=
\* next_run_after(after2).
C11_NextRunMonotone ==
    res.op = "next_run_after"
    => \A after2 \in Times :
          res.at <= after2 =>
            LET r2 == next_run_after(dispatch, after2)
            IN  /\ res.ret = None => r2 = None
                /\ (res.ret.kind = "Some" /\ r2.kind = "Some")
                     => res.ret.v <= r2.v

C11_Witness ==
    /\ res.op = "next_run_after"
    /\ Recurs
    /\ res.ret.kind = "Some"
    /\ \E after2 \in Times :
          /\ res.at < after2
          /\ next_run_after(dispatch, after2).kind = "Some"
          /\ res.ret.v < next_run_after(dispatch, after2).v

\* C12: for a dispatch with a duration and a real frequency whose
\* by_weekday contains UNSPECIFIED, the rule has no occurrences: until(now)
\* is none and running is STOPPED at every now >= start_time, and neither
\* raises an error.
C12_UnspecifiedWeekdayTotal ==
    (Recurs /\ "UNSPECIFIED" \in Rule.byweekdays)
    => /\ res.op = "until" => res.ret = None
       /\ (res.op = "running" /\ res.type_ = dispatch.type
             /\ res.at >= Start) => res.state = "STOPPED"

C12_Witness ==
    /\ Recurs
    /\ "UNSPECIFIED" \in Rule.byweekdays
    /\ dispatch.active
    /\ res.op = "until"
    /\ res.at >= Start
    /\ res.ret = None

\* C13: for a dispatch with a duration and a real frequency whose
\* by_weekday contains UNSPECIFIED (alone or with valid weekdays),
\* next_run_after(after) is none for every after, without an error.
C13_UnspecifiedWeekdayNoNextRun ==
    (res.op = "next_run_after" /\ Recurs
       /\ "UNSPECIFIED" \in Rule.byweekdays)
    => res.ret = None

C13_Witness ==
    /\ res.op = "next_run_after"
    /\ Recurs
    /\ Rule.byweekdays = {"UNSPECIFIED", "MONDAY"}
    /\ res.at <= Start
    /\ res.ret = None

\* C15: for a dispatch with a duration and a rule of frequency HOURLY,
\* DAILY or WEEKLY, interval n >= 1, no by_* filter and no end criteria,
\* next_run_after(after) is the least start_time + k*n*unit (k >= 0) that
\* is >= after, after itself when it is an occurrence.
C15_FixedStepNextRun ==
    (/\ res.op = "next_run_after"
     /\ Recurs
     /\ Rule.interval >= 1
     /\ Rule.byweekdays = {}
     /\ Rule.end_criteria.kind = "None")
    => LET step == Rule.interval * FreqStep(Rule.frequency)
       IN  /\ res.ret.kind = "Some"
           /\ res.ret.v >= res.at
           /\ res.ret.v >= Start
           /\ (res.ret.v - Start) % step = 0
           /\ res.ret.v - step >= Start => res.ret.v - step < res.at

C15_Witness ==
    /\ res.op = "next_run_after"
    /\ Recurs
    /\ Rule.frequency = "DAILY"
    /\ Rule.interval = 1
    /\ Rule.byweekdays = {}
    /\ Rule.end_criteria.kind = "None"
    /\ res.at = Start + 1
    /\ res.ret = Some(res.at + DayLen - 1)

\* An instant that is a Monday at the time of day of start_time.
MondayAtStartTime(t) ==
    WeekdayOf(t) = "MONDAY" /\ t % DayLen = Start % DayLen

WeeklyMonday ==
    /\ Recurs
    /\ Rule.frequency = "WEEKLY"
    /\ Rule.byweekdays = {"MONDAY"}

FirstMondayFrom(r, lo) ==
    /\ MondayAtStartTime(r)
    /\ r >= lo
    /\ \A m \in 0..Horizon :
          (MondayAtStartTime(m) /\ m >= lo /\ m >= Start) => r <= m

FirstN(n) ==
    LET F == Filtered(Rule, Start)
    IN  {o \in F : Cardinality({p \in F : p < o}) < n}

CountRule ==
    /\ Recurs
    /\ Rule.end_criteria.kind = "count"
    /\ Cardinality(FirstN(Rule.end_criteria.v)) = Rule.end_criteria.v

\* C18: with end criteria count = n the recurrence has at most n
\* occurrences counting the first: next_run_after(after) is none for every
\* after later than the n-th occurrence, and running is STOPPED at every
\* now at or after the end of the window of the n-th occurrence.
C18_CountBounded ==
    CountRule
    => LET nth == SetMax(FirstN(Rule.end_criteria.v))
       IN  /\ res.op = "next_run_after" =>
                /\ res.at > nth => res.ret = None
                /\ res.ret.kind = "Some" =>
                     res.ret.v \in FirstN(Rule.end_criteria.v)
           /\ (res.op = "running" /\ res.type_ = dispatch.type
                 /\ res.at >= nth + Dur) => res.state = "STOPPED"

C18_Witness ==
    /\ CountRule
    /\ dispatch.active
    /\ Rule.end_criteria.v = 2
    /\ Dur > 0
    /\ res.op = "running"
    /\ res.type_ = dispatch.type
    /\ res.at = SetMax(FirstN(2)) + Dur
    /\ res.state = "STOPPED"

\* C19: Dispatch.from_protobuf(d.to_protobuf()) == d for every Dispatch d
\* whose duration is absent or a whole number of seconds, zero included;
\* the round trip keeps a present duration present and an absent one
\* absent.
C19_ProtoRoundTrip ==
    (/\ decoded # NoDispatch
     /\ (dispatch.duration = None
           \/ dispatch.duration.v % TicksPerSecond = 0))
    => /\ DispatchEq(decoded, dispatch)
       /\ (decoded.duration = None) <=> (dispatch.duration = None)

\* The start_time of the last create was a datetime at or before the
\* reading of the clock, or a datetime without timezone information.
PastOrNaive(c) ==
    /\ c.start_time.kind = "datetime"
    /\ (c.start_time.t <= c.at \/ ~c.start_time.aware)

\* C20: Client.create with a datetime start_time that is in the past, or
\* that lacks timezone information, raises ValueError before any request
\* is sent: no dispatch is stored, no id is consumed and no event is
\* emitted; a start_time "NOW" is never rejected by this check.
C20_CreateRejectsEarly ==
    [][call'.op = "create" /\ call' # call =>
         /\ PastOrNaive(call') =>
              /\ call'.outcome = "ValueError"
              /\ UNCHANGED <<dispatches, last_id, events>>
         /\ call'.start_time = NOW => call'.outcome # "ValueError"]_vars

C20_Witness ==
    /\ call.op = "create"
    /\ call.start_time.kind = "datetime"
    /\ ~call.start_time.aware
    /\ call.start_time.t > call.at
    /\ call.outcome = "ValueError"
    /\ last_id = 1
    /\ Len(events) = 1

\* The keys of new_fields that Client.update supports.
SupportedKeys ==
    {<<"start_time">>, <<"duration">>, <<"target">>, <<"is_active">>,
     <<"payload">>, <<"active">>} \cup
    {<<"recurrence", name>> :
       name \in {"freq", "frequency", "interval", "end_criteria", "byminutes",
                 "byhours", "byweekdays", "bymonthdays", "bymonths"}}

HasUnknownField(new_fields) ==
    \E k \in 1..Len(new_fields) : new_fields[k].key \notin SupportedKeys

\* C21: Client.update raises ValueError when new_fields contains type,
\* dry_run or any other unknown field (or an unknown recurrence field),
\* and then sends no request: the stored dispatches, with their
\* update_time, are unchanged and no event is emitted.
C21_UpdateRejectsUnknownField ==
    [][call'.op = "update" /\ call' # call
       /\ HasUnknownField(call'.new_fields) =>
         /\ call'.outcome = "ValueError"
         /\ UNCHANGED <<dispatches, last_id, events, receivers>>]_vars

C21_Witness ==
    /\ call.op = "update"
    /\ call.outcome = "ValueError"
    /\ call.new_fields[1].key = <<"dry_run">>
    /\ check_access(call.metadata) = "ok"
    /\ IndexOf(GridDispatches(call.microgrid_id), call.id) # 0

\* All stored dispatches, of every microgrid.
Stored ==
    UNION {{dispatches[m][i] : i \in 1..Len(dispatches[m])} :
             m \in DOMAIN dispatches}

\* C22: every dispatch returned by Create has create_time = update_time,
\* and create_time <= update_time holds for every stored dispatch in every
\* reachable state.
C22_CreateTimesEqual ==
    /\ \A k \in 1..Len(events) :
          events[k].event = "CREATED" =>
            events[k].dispatch.create_time = events[k].dispatch.update_time
    /\ \A d \in Stored : d.create_time <= d.update_time

\* The filters of the last list call, as the claim reads them.
Matches(d, f) ==
    /\ f.targets = <<>> \/ \E i \in 1..Len(f.targets) : f.targets[i] = d.selector
    /\ f.start_from # None => f.start_from.v <= d.start_time
    /\ f.start_to # None => d.start_time < f.start_to.v
    /\ f.end_from # None =>
          d.duration # None /\ f.end_from.v <= d.start_time + d.duration.v
    /\ f.end_to # None =>
          d.duration # None /\ d.start_time + d.duration.v < f.end_to.v
    /\ f.active.set => d.active = f.active.v
    /\ f.dry_run.set => d.dry_run = f.dry_run.v

\* C23: Client.list for microgrid m yields, each exactly once, exactly the
\* dispatches stored for m that satisfy every given filter: start_from <=
\* start_time < start_to, end_from <= start_time + duration < end_to,
\* active and dry_run equal to the requested values, and target equal to
\* one of the requested target_components.
C23_ListExactlyMatching ==
    (call.op = "list" /\ call.outcome = "ok")
    => LET Wanted(d) == Matches(d, call.filter)
       IN  call.result = SelectSeq(GridDispatches(call.microgrid_id), Wanted)

\* The event kind of each operation.
EventOf(op) ==
    IF op = "create" THEN "CREATED"
    ELSE IF op = "update" THEN "UPDATED"
    ELSE "DELETED"

\* C24: for every successful Create, Update or Delete on microgrid m, each
\* stream already subscribed to m receives exactly one event of kind
\* CREATED, UPDATED or DELETED respectively carrying that dispatch, after
\* the events of the earlier operations, and a stream subscribed to a
\* different microgrid receives nothing.
C24_StreamEvents ==
    [][events' # events =>
         /\ call'.op \in {"create", "update", "delete"}
         /\ call'.outcome = "ok"
         /\ Len(events') = Len(events) + 1
         /\ LET message == events'[Len(events')]
            IN  /\ message.microgrid_id = call'.microgrid_id
                /\ message.event = EventOf(call'.op)
                /\ message.dispatch.id = call'.id
                /\ Len(receivers') = Len(receivers)
                /\ \A k \in 1..Len(receivers) :
                      receivers'[k].received =
                        IF /\ receivers[k].live
                           /\ receivers[k].microgrid_id = call'.microgrid_id
                        THEN Append(receivers[k].received, message)
                        ELSE receivers[k].received]_vars

C24_Witness ==
    /\ Len(receivers) = 2
    /\ receivers[1].live
    /\ receivers[2].live
    /\ receivers[1].microgrid_id # receivers[2].microgrid_id
    /\ receivers[2].since = 0
    /\ receivers[2].received = <<>>
    /\ Len(receivers[1].received) = 2
    /\ receivers[1].received[1].event = "CREATED"
    /\ receivers[1].received[2].event = "UPDATED"
    /\ receivers[1].received = events

\* C25: for an active dispatch of the requested type with a duration and
\* a valid recurring rule, running at now is RUNNING if and only if some
\* occurrence o of the recurrence satisfies o <= now < o + duration, and
\* STOPPED otherwise.
C25_RecurringWindows ==
    (/\ res.op = "running"
     /\ res.type_ = dispatch.type
     /\ dispatch.active
     /\ Recurs
     /\ "UNSPECIFIED" \notin Rule.byweekdays)
    => /\ res.state \in {"RUNNING", "STOPPED"}
       /\ res.state = "RUNNING" <=>
            \E o \in Occs : o <= res.at /\ res.at < o + Dur

C25_Witness ==
    /\ res.op = "running"
    /\ res.type_ = dispatch.type
    /\ dispatch.active
    /\ Recurs
    /\ "UNSPECIFIED" \notin Rule.byweekdays
    /\ Dur > 0
    /\ res.state = "STOPPED"
    /\ \E o \in Occs : o + Dur <= res.at
    /\ \E o \in Occs : res.at < o

\* C26: each Client instance uses only its own stream broadcasters:
\* stream(m) on one client never returns a receiver attached to a
\* broadcaster that a different Client instance created.
C26_OwnBroadcasters ==
    \A k \in 1..Len(receivers) : receivers[k].owner = receivers[k].client

\* The metadata that the access check of the service refuses.
Refused(metadata) == ~metadata.has_key \/ metadata.key # ALL_KEY

\* C27: Get, Update and Delete of a dispatch id that is not stored for the
\* given microgrid (never created, already deleted, or a microgrid that
\* has no dispatches at all) fail with status NOT_FOUND.
C27_MissingIsNotFound ==
    [][(/\ call' # call
        /\ call'.op \in {"get", "update", "delete"}
        /\ ~Refused(call'.metadata)
        /\ call'.op = "update" => ~HasUnknownField(call'.new_fields)
        /\ IndexOf(GridDispatches(call'.microgrid_id), call'.id) = 0)
       => call'.outcome = "NOT_FOUND"]_vars

\* The fields that the new_fields of an update name.
Masked(new_fields, names) ==
    \E k \in 1..Len(new_fields) : new_fields[k].key[1] \in names

\* C28: a successful Update of dispatch i in microgrid m changes only the
\* fields of i named in the update mask plus update_time; its id, type,
\* dry_run, create_time, every unmasked field, its position in the list
\* and every other dispatch of every microgrid are unchanged.
C28_UpdateFrame ==
    [][(events' # events /\ call'.op = "update") =>
         LET m == call'.microgrid_id
             index == IndexOf(dispatches[m], call'.id)
             old == dispatches[m][index]
             new == dispatches'[m][index]
             fields == call'.new_fields
         IN  /\ DOMAIN dispatches' = DOMAIN dispatches
             /\ \A g \in DOMAIN dispatches :
                   /\ Len(dispatches'[g]) = Len(dispatches[g])
                   /\ \A j \in 1..Len(dispatches[g]) :
                         (g # m \/ j # index) =>
                           dispatches'[g][j] = dispatches[g][j]
             /\ new.id = old.id
             /\ new.type = old.type
             /\ new.dry_run = old.dry_run
             /\ new.create_time = old.create_time
             /\ new.selector = old.selector
             /\ new.payload = old.payload
             /\ Masked(fields, {"start_time"}) \/ new.start_time = old.start_time
             /\ Masked(fields, {"duration"}) \/ new.duration = old.duration
             /\ Masked(fields, {"active", "is_active"})
                  \/ new.active = old.active
             /\ Masked(fields, {"recurrence"})
                  \/ new.recurrence = old.recurrence]_vars

\* C29: a service request that fails the access check (missing key,
\* NONE_KEY, or any key other than ALL_KEY) or fails with NOT_FOUND leaves
\* the stored dispatches and the id counter unchanged and emits no stream
\* event.
C29_FailureFrame ==
    [][(/\ call' # call
        /\ call'.op \in {"create", "update", "get", "delete", "list"}
        /\ Refused(call'.metadata) \/ call'.outcome = "NOT_FOUND")
       => UNCHANGED <<dispatches, last_id, events, receivers>>]_vars

C29_Witness ==
    /\ call.op = "delete"
    /\ call.metadata.has_key
    /\ call.metadata.key = "other"
    /\ call.outcome = "UNAUTHENTICATED"
    /\ IndexOf(GridDispatches(call.microgrid_id), call.id) # 0
    /\ last_id = 1
    /\ Len(events) = 1

\* The events of the dispatches that the service created, in order.
Created ==
    LET IsCreated(message) == message.event = "CREATED"
    IN  SelectSeq(events, IsCreated)

\* The positions of the stored dispatches.
Positions ==
    {p \in (DOMAIN dispatches) \X (1..(MaxId + 1)) :
       p[2] <= Len(dispatches[p[1]])}

====
